---- MODULE Spec2Model ----
(***************************************************************************)
(* Model of DisplayAnalyzer (common/base/DisplayAnalyzer.cpp): the         *)
(* per-frame analysis of the display contents, the sticky mode state and   *)
(* the mutex-guarded queue of pending events.                              *)
(*                                                                         *)
(* The composition thread runs analyzeContents(); producer threads run     *)
(* postHotplugEvent / postVideoEvent / postBlankEvent; any thread may call *)
(* isVideoExtendedModeEnabled(), which re-reads the system property.       *)
(***************************************************************************)
EXTENDS Integers, Sequences, FiniteSets, TLC

VARIABLES
    \* ---- DisplayAnalyzer fields
    mEnableVideoExtendedMode,
    mVideoExtendedMode,
    mForceCloneMode,
    mBlankDevice,
    mVideoPlaying,
    mVideoPreparing,
    mOverlayAllowed,
    mCachedNumDisplays,
    mCachedDisplays,      \* 0 (null) or 1 (points to the caller's array)
    mPendingEvents,
    mEventMutex,          \* "free", "comp" or the producer holding it
    \* ---- memory owned by the caller and the collaborators
    displays,             \* the caller's array of display contents
    bufferManager,        \* handle -> buffer format, or "none" (lock fails)
    drmMode,              \* mode info of the external display
    \* ---- threads
    pc,                   \* position of the composition thread
    posting,              \* producer -> the event it is appending, or NoEvent
    \* ---- history
    appended,             \* events appended and not yet retired, in order
    applied,              \* events applied and not yet retired, in order
    entry,                \* mode state and frame at entry of analyzeContents
    trace,                \* what the current/last analyzeContents did
    twin,                 \* the mode state of the run that differs from this
                          \* one only in that the collaborators answered in
                          \* the last frame in which they failed here
    vsyncResets           \* thread -> resetVsyncSource() calls it has made in
                          \* postHotplugEvent / handlePendingEvents (cleared
                          \* when that call returns)

modeVars == <<mEnableVideoExtendedMode, mVideoExtendedMode, mForceCloneMode,
              mBlankDevice, mVideoPlaying, mVideoPreparing, mOverlayAllowed>>
cacheVars == <<mCachedNumDisplays, mCachedDisplays>>
frameVars == <<displays, bufferManager, drmMode>>
histVars == <<appended, applied, entry, trace, twin, vsyncResets>>
vars == <<modeVars, cacheVars, mPendingEvents, mEventMutex, frameVars, pc,
          posting, histVars>>

(***************************************************************************)
(* Bounds                                                                  *)
(***************************************************************************)
MaxPending == 2       \* events in the queue (producers wait beyond it)
MaxLayers == 2        \* layers of a display besides its frame buffer target
MaxDim == 2           \* rectangle and mode sizes range over 0..MaxDim

(***************************************************************************)
(* Program constants                                                       *)
(***************************************************************************)
DEVICE_PRIMARY == 0

HWC_GEOMETRY_CHANGED == "HWC_GEOMETRY_CHANGED"
HWC_SKIP_LAYER == "HWC_SKIP_LAYER"
HWC_TRICK_MODE == "HWC_TRICK_MODE"
HWC_HINT_CLEAR_FB == "HWC_HINT_CLEAR_FB"
HWC_FRAMEBUFFER == "HWC_FRAMEBUFFER"
HWC_OVERLAY == "HWC_OVERLAY"
HOTPLUG_EVENT == "HOTPLUG_EVENT"
BLANK_EVENT == "BLANK_EVENT"
VIDEO_EVENT == "VIDEO_EVENT"

Producers == {"p1", "p2"}
Threads == Producers \cup {"comp"}

(***************************************************************************)
(* Data: events, layers, display contents.                                 *)
(* A bit mask is the set of the bits that are set: |= is \cup, &= ~ is \.  *)
(* Arrays are sequences: C index i is TLA+ index i + 1.                    *)
(***************************************************************************)
Event(t, c, b, pr, pl) ==
    [type |-> t, connected |-> c, blank |-> b, preparing |-> pr, playing |-> pl]
HotplugEvent(c) == Event(HOTPLUG_EVENT, c, FALSE, FALSE, FALSE)
BlankEvent(b) == Event(BLANK_EVENT, FALSE, b, FALSE, FALSE)
VideoEvent(pr, pl) == Event(VIDEO_EVENT, FALSE, FALSE, pr, pl)
NoEvent == Event("none", FALSE, FALSE, FALSE, FALSE)

Layer(h, fl, hi, ct, w, ht) ==
    [handle |-> h, flags |-> fl, hints |-> hi, compositionType |-> ct,
     displayFrame |-> [left |-> 0, top |-> 0, right |-> w, bottom |-> ht]]
Content(fl, ls) == [null |-> FALSE, flags |-> fl, hwLayers |-> ls]
NULL == [null |-> TRUE, flags |-> {}, hwLayers |-> <<>>]
ModeInfo(w, h) == [ok |-> TRUE, hdisplay |-> w, vdisplay |-> h]
NoModeInfo == [ok |-> FALSE, hdisplay |-> 0, vdisplay |-> 0]

SetLayer(ls, j, l) == [ls EXCEPT ![j] = l]
SetContent(ds, i, c) == [ds EXCEPT ![i] = c]

(***************************************************************************)
(* isVideoLayer, isVideoEmbedded                                           *)
(***************************************************************************)
isVideoFormat(format) == format = "video"

isVideoLayer(layer, bm) ==
    IF layer.handle = 0 THEN FALSE
    ELSE IF bm[layer.handle] = "none" THEN FALSE
    ELSE isVideoFormat(bm[layer.handle])

\* mutant: the comparison without the margin of one
isVideoEmbeddedStrict(layer, mode) ==
    IF ~mode.ok THEN FALSE
    ELSE LET dstW == layer.displayFrame.right - layer.displayFrame.left
             dstH == layer.displayFrame.bottom - layer.displayFrame.top
         IN  dstW < mode.hdisplay /\ dstH < mode.vdisplay

isVideoEmbedded(layer, mode) ==
    IF ~mode.ok THEN FALSE
    ELSE LET dstW == layer.displayFrame.right - layer.displayFrame.left
             dstH == layer.displayFrame.bottom - layer.displayFrame.top
         IN  dstW < mode.hdisplay - 1 /\ dstH < mode.vdisplay - 1

(***************************************************************************)
(* blankSecondaryDevice: the contents after the call                       *)
(***************************************************************************)
\* mutant: the skip flag is left as it is
BlankLayerKeepSkip(layer, blank) ==
    IF blank
    THEN [layer EXCEPT !.hints = @ \cup {HWC_HINT_CLEAR_FB},
                       !.compositionType = HWC_OVERLAY]
    ELSE [layer EXCEPT !.hints = @ \ {HWC_HINT_CLEAR_FB},
                       !.compositionType = HWC_FRAMEBUFFER]

\* mutant: unblanking clears the hint and leaves the composition type
BlankLayerKeepType(layer, blank) ==
    IF blank
    THEN [layer EXCEPT !.hints = @ \cup {HWC_HINT_CLEAR_FB},
                       !.flags = @ \ {HWC_SKIP_LAYER},
                       !.compositionType = HWC_OVERLAY]
    ELSE [layer EXCEPT !.hints = @ \ {HWC_HINT_CLEAR_FB}]

BlankLayer(layer, blank) ==
    IF blank
    THEN [layer EXCEPT !.hints = @ \cup {HWC_HINT_CLEAR_FB},
                       !.flags = @ \ {HWC_SKIP_LAYER},
                       !.compositionType = HWC_OVERLAY]
    ELSE [layer EXCEPT !.hints = @ \ {HWC_HINT_CLEAR_FB},
                       !.compositionType = HWC_FRAMEBUFFER]

\* mutant: the frame buffer target is blanked like the other layers
BlankContentAll(content, blank) ==
    [content EXCEPT !.hwLayers =
        [j \in 1..Len(@) |-> BlankLayer(@[j], blank)]]

BlankContent(content, blank) ==
    [content EXCEPT !.hwLayers =
        [j \in 1..Len(@) |-> IF j - 1 < Len(@) - 1 THEN BlankLayer(@[j], blank)
                                                   ELSE @[j]]]

blankSecondaryDevice(ds, n, blank) ==
    [k \in 1..Len(ds) |->
        IF k - 1 < n /\ k - 1 # DEVICE_PRIMARY /\ ~ds[k].null
        THEN BlankContent(ds[k], blank)
        ELSE ds[k]]

(***************************************************************************)
(* detectTrickMode: [list, forceClone, detected] after the call            *)
(***************************************************************************)
RECURSIVE TrickScan(_, _)
TrickScan(ls, i) ==
    \* the loop of lines 118-126 from C index i: the index (1-based) of the
    \* first layer with HWC_TRICK_MODE, or 0
    IF i >= Len(ls) THEN 0
    ELSE IF HWC_TRICK_MODE \in ls[i + 1].flags THEN i + 1
    ELSE TrickScan(ls, i + 1)

\* mutant: the geometry-changed flag is set whenever the flag is detected
detectTrickModeLevel(list, forceClone) ==
    IF list.null
    THEN [list |-> list, forceClone |-> forceClone, ran |-> FALSE,
          detected |-> FALSE]
    ELSE LET hit == TrickScan(list.hwLayers, 0)
             detected == hit # 0
             l1 == IF detected
                   THEN [list EXCEPT !.hwLayers[hit].compositionType =
                                          HWC_FRAMEBUFFER,
                                     !.flags = @ \cup {HWC_GEOMETRY_CHANGED}]
                   ELSE list
         IN  [list |-> l1, forceClone |-> detected, ran |-> TRUE,
              detected |-> detected]

\* mutant: the composition type of the flagged layer is not reset
detectTrickModeNoReset(list, forceClone) ==
    IF list.null
    THEN [list |-> list, forceClone |-> forceClone, ran |-> FALSE,
          detected |-> FALSE]
    ELSE LET detected == TrickScan(list.hwLayers, 0) # 0
         IN  IF detected # forceClone
             THEN [list |-> [list EXCEPT !.flags = @ \cup {HWC_GEOMETRY_CHANGED}],
                   forceClone |-> detected, ran |-> TRUE, detected |-> detected]
             ELSE [list |-> list, forceClone |-> forceClone, ran |-> TRUE,
                   detected |-> detected]

\* mutant: mForceCloneMode follows the detection without the geometry flag
detectTrickModeSilent(list, forceClone) ==
    IF list.null
    THEN [list |-> list, forceClone |-> forceClone, ran |-> FALSE,
          detected |-> FALSE]
    ELSE LET hit == TrickScan(list.hwLayers, 0)
             detected == hit # 0
             l1 == IF detected
                   THEN [list EXCEPT !.hwLayers[hit].compositionType =
                                          HWC_FRAMEBUFFER]
                   ELSE list
         IN  [list |-> l1, forceClone |-> detected, ran |-> TRUE,
              detected |-> detected]

detectTrickMode(list, forceClone) ==
    IF list.null
    THEN [list |-> list, forceClone |-> forceClone, ran |-> FALSE,
          detected |-> FALSE]
    ELSE LET hit == TrickScan(list.hwLayers, 0)
             detected == hit # 0
             l1 == IF detected
                   THEN [list EXCEPT !.hwLayers[hit].compositionType =
                                          HWC_FRAMEBUFFER]
                   ELSE list
         IN  IF detected # forceClone
             THEN [list |-> [l1 EXCEPT !.flags = @ \cup {HWC_GEOMETRY_CHANGED}],
                   forceClone |-> detected, ran |-> TRUE, detected |-> detected]
             ELSE [list |-> l1, forceClone |-> forceClone, ran |-> TRUE,
                   detected |-> detected]

(***************************************************************************)
(* detectVideoExtendedMode: [vem, forceClone] after the call               *)
(***************************************************************************)
ActiveDisplays(ds, n) == Cardinality({k \in 1..n : ~ds[k].null})
GeometryChanged(ds, n) ==
    \E k \in 1..n : ~ds[k].null /\ HWC_GEOMETRY_CHANGED \in ds[k].flags

RECURSIVE FirstVideoLayer(_, _, _)
FirstVideoLayer(ls, j, bm) ==
    \* the loop of lines 179-185 from C index j: the index (1-based) of the
    \* first video layer before the frame buffer target, or 0
    IF j >= Len(ls) - 1 THEN 0
    ELSE IF isVideoLayer(ls[j + 1], bm) THEN j + 1
    ELSE FirstVideoLayer(ls, j + 1, bm)

\* mutant: the frame buffer target is scanned too
RECURSIVE MatchLayerWithTarget(_, _, _)
MatchLayerWithTarget(ls, j, videoHandle) ==
    IF j >= Len(ls) THEN 0
    ELSE IF ls[j + 1].handle = videoHandle THEN j + 1
    ELSE MatchLayerWithTarget(ls, j + 1, videoHandle)

RECURSIVE MatchLayer(_, _, _)
MatchLayer(ls, j, videoHandle) ==
    \* the loop of lines 202-210 from C index j
    IF j >= Len(ls) - 1 THEN 0
    ELSE IF ls[j + 1].handle = videoHandle THEN j + 1
    ELSE MatchLayer(ls, j + 1, videoHandle)

RECURSIVE MatchDisplay(_, _, _, _, _)
MatchDisplay(ds, n, i, videoHandle, mode) ==
    \* the loop of lines 195-211 from C index i: the value left in
    \* mVideoExtendedMode (it was reset to false at line 168)
    IF i >= n THEN FALSE
    ELSE IF ds[i + 1].null THEN MatchDisplay(ds, n, i + 1, videoHandle, mode)
    ELSE LET m == MatchLayer(ds[i + 1].hwLayers, 0, videoHandle)
         IN  IF m # 0 THEN ~isVideoEmbedded(ds[i + 1].hwLayers[m], mode)
             ELSE MatchDisplay(ds, n, i + 1, videoHandle, mode)

\* mutant: the result is derived again in every frame
detectVideoExtendedModeAlways(ds, n, playing, vem, forceClone, bm, mode) ==
    IF ~playing THEN [vem |-> FALSE, forceClone |-> FALSE, step |-> "stopped"]
    ELSE IF ActiveDisplays(ds, n) <= 1
    THEN [vem |-> FALSE, forceClone |-> forceClone, step |-> "single"]
    ELSE IF ds[1].null
    THEN [vem |-> FALSE, forceClone |-> forceClone, step |-> "noprimary"]
    ELSE LET v == FirstVideoLayer(ds[1].hwLayers, 0, bm)
         IN  IF v = 0
             THEN [vem |-> FALSE, forceClone |-> forceClone, step |-> "novideo"]
             ELSE [vem |-> MatchDisplay(ds, n, 1, ds[1].hwLayers[v].handle, mode),
                   forceClone |-> forceClone, step |-> "derived"]

detectVideoExtendedMode(ds, n, playing, vem, forceClone, bm, mode) ==
    IF ~playing THEN [vem |-> FALSE, forceClone |-> FALSE, step |-> "stopped"]
    ELSE IF ActiveDisplays(ds, n) <= 1
    THEN [vem |-> FALSE, forceClone |-> forceClone, step |-> "single"]
    ELSE IF ~GeometryChanged(ds, n)
    THEN [vem |-> vem, forceClone |-> forceClone, step |-> "kept"]
    ELSE IF ds[1].null
    THEN [vem |-> FALSE, forceClone |-> forceClone, step |-> "noprimary"]
    ELSE LET v == FirstVideoLayer(ds[1].hwLayers, 0, bm)
         IN  IF v = 0
             THEN [vem |-> FALSE, forceClone |-> forceClone, step |-> "novideo"]
             ELSE [vem |-> MatchDisplay(ds, n, 1, ds[1].hwLayers[v].handle, mode),
                   forceClone |-> forceClone, step |-> "derived"]

checkVideoExtendedMode == mVideoExtendedMode /\ ~mForceCloneMode
isVideoPlaying == mVideoPlaying
isOverlayAllowed == mOverlayAllowed


(***************************************************************************)
(* Initial state: after the constructor and initialize() with the property *)
(* at its default                                                          *)
(***************************************************************************)
NoEntry ==
    [valid |-> FALSE, vem |-> FALSE, forceClone |-> FALSE, displays |-> <<>>,
     trick |-> "none"]
NoTrace ==
    [enabled |-> "unread", step |-> "none", trick |-> "none",
     blanked |-> FALSE, blank |-> FALSE, stopped |-> FALSE, calls |-> <<>>,
     owed |-> 0]
NoTwin == [vem |-> FALSE, forceClone |-> FALSE, since |-> "never"]
DefaultBuffers == [h \in 1..2 |-> "none"]

Init ==
    /\ mEnableVideoExtendedMode = TRUE
    /\ mVideoExtendedMode = FALSE
    /\ mForceCloneMode = FALSE
    /\ mBlankDevice = FALSE
    /\ mVideoPlaying = FALSE
    /\ mVideoPreparing = FALSE
    /\ mOverlayAllowed = TRUE
    /\ mCachedNumDisplays = 0
    /\ mCachedDisplays = 0
    /\ mPendingEvents = <<>>
    /\ mEventMutex = "free"
    /\ displays = <<>>
    /\ bufferManager = DefaultBuffers
    /\ drmMode = NoModeInfo
    /\ pc = "idle"
    /\ posting = [p \in Producers |-> NoEvent]
    /\ appended = <<>>
    /\ applied = <<>>
    /\ entry = NoEntry
    /\ trace = NoTrace
    /\ twin = NoTwin
    /\ vsyncResets = [t \in Threads |-> 0]

(***************************************************************************)
(* Producer threads: postHotplugEvent, postVideoEvent, postBlankEvent.     *)
(* postEvent takes the mutex (PostLock), appends and releases it on return *)
(* (postEvent).                                                            *)
(***************************************************************************)
PostLock(p, e, cap) ==
    /\ posting[p] = NoEvent
    /\ mEventMutex = "free"
    /\ Len(mPendingEvents) < cap
    /\ mEventMutex' = p
    /\ posting' = [posting EXCEPT ![p] = e]
    /\ UNCHANGED <<modeVars, cacheVars, mPendingEvents, frameVars, pc, histVars>>

\* mutant: the disconnection is queued like the connection
postHotplugEventQueued(p, connected, cap) ==
    PostLock(p, HotplugEvent(connected), cap)

postHotplugEvent(p, connected, cap) ==
    IF ~connected
    THEN \* line 295: resetVsyncSource() on the vsync manager, no field of the
         \* analyzer and no event
         /\ posting[p] = NoEvent
         /\ posting' = [posting EXCEPT ![p] = HotplugEvent(FALSE)]
         /\ vsyncResets' = [vsyncResets EXCEPT ![p] = @ + 1]
         /\ UNCHANGED <<modeVars, cacheVars, mPendingEvents, mEventMutex,
                        frameVars, pc, appended, applied, entry, trace, twin>>
    ELSE PostLock(p, HotplugEvent(connected), cap)

postHotplugReturn(p) ==
    \* postHotplugEvent(false) returns (line 304)
    /\ posting[p] = HotplugEvent(FALSE)
    /\ mEventMutex # p
    /\ posting' = [posting EXCEPT ![p] = NoEvent]
    /\ vsyncResets' = [vsyncResets EXCEPT ![p] = 0]
    /\ UNCHANGED <<modeVars, cacheVars, mPendingEvents, mEventMutex,
                   frameVars, pc, appended, applied, entry, trace, twin>>

postVideoEvent(p, preparing, playing, cap) ==
    PostLock(p, VideoEvent(preparing, playing), cap)

\* mutant: the blank state is applied at post time
postBlankEventEager(p, blank, cap) ==
    /\ posting[p] = NoEvent
    /\ mEventMutex = "free"
    /\ Len(mPendingEvents) < cap
    /\ mEventMutex' = p
    /\ posting' = [posting EXCEPT ![p] = BlankEvent(blank)]
    /\ mBlankDevice' = blank
    /\ UNCHANGED <<mEnableVideoExtendedMode, mVideoExtendedMode,
                   mForceCloneMode, mVideoPlaying, mVideoPreparing,
                   mOverlayAllowed, cacheVars, mPendingEvents, frameVars, pc,
                   histVars>>

postBlankEvent(p, blank, cap) ==
    PostLock(p, BlankEvent(blank), cap)

postEvent(p) ==
    /\ posting[p] # NoEvent
    /\ mEventMutex = p
    /\ mPendingEvents' = Append(mPendingEvents, posting[p])
    /\ appended' = Append(appended, posting[p])
    /\ mEventMutex' = "free"
    /\ posting' = [posting EXCEPT ![p] = NoEvent]
    /\ UNCHANGED <<modeVars, cacheVars, frameVars, pc, applied, entry, trace,
                   twin, vsyncResets>>

(***************************************************************************)
(* isVideoExtendedModeEnabled: re-reads hwc.video.extmode.enable           *)
(***************************************************************************)
isVideoExtendedModeEnabled(prop) ==
    /\ mEnableVideoExtendedMode' = prop
    /\ UNCHANGED <<mVideoExtendedMode, mForceCloneMode, mBlankDevice,
                   mVideoPlaying, mVideoPreparing, mOverlayAllowed, cacheVars,
                   mPendingEvents, mEventMutex, frameVars, pc, posting,
                   histVars>>

(***************************************************************************)
(* Composition thread: analyzeContents                                     *)
(***************************************************************************)
AnalyzeBegin(frames) ==
    \* lines 92-93, with the frame the caller passes
    /\ pc = "idle"
    /\ \E f \in frames :
        /\ displays' = f.displays
        /\ bufferManager' = f.bm
        /\ drmMode' = f.mode
        /\ mCachedNumDisplays' = Len(f.displays)
        /\ entry' = [valid |-> TRUE, vem |-> mVideoExtendedMode,
                     forceClone |-> mForceCloneMode, displays |-> f.displays,
                     trick |-> trace.trick]
    /\ mCachedDisplays' = 1
    /\ trace' = [NoTrace EXCEPT !.calls = <<"cache">>,
                                !.owed = Len(mPendingEvents)]
    /\ pc' = "lock"
    /\ UNCHANGED <<modeVars, mPendingEvents, mEventMutex, posting, appended,
                   applied, twin, vsyncResets>>

HandleLock ==
    \* handlePendingEvents, line 332
    /\ pc = "lock"
    /\ mEventMutex = "free"
    /\ mEventMutex' = "comp"
    /\ pc' = "drain"
    /\ UNCHANGED <<modeVars, cacheVars, mPendingEvents, frameVars, posting,
                   histVars>>

\* mutant: the last event of the queue is taken
TakeLast(t) ==
    /\ pc = "drain"
    /\ mEventMutex = "comp"
    /\ mPendingEvents # <<>>
    /\ Head(mPendingEvents).type = t
    /\ mPendingEvents' = SubSeq(mPendingEvents, 1, Len(mPendingEvents) - 1)
    /\ applied' = Append(applied, mPendingEvents[Len(mPendingEvents)])

Take(t) ==
    \* lines 338-340: the head of the queue, of type t, is removed
    /\ pc = "drain"
    /\ mEventMutex = "comp"
    /\ mPendingEvents # <<>>
    /\ Head(mPendingEvents).type = t
    /\ mPendingEvents' = Tail(mPendingEvents)
    /\ applied' = Append(applied, Head(mPendingEvents))

\* one event fewer is owed to the events queued at entry
Less(n) == IF n > 0 THEN n - 1 ELSE 0

handleHotplugEvent ==
    \* line 356: resetVsyncSource()
    /\ Take(HOTPLUG_EVENT)
    /\ vsyncResets' = [vsyncResets EXCEPT !["comp"] = @ + 1]
    /\ trace' = [trace EXCEPT !.owed = Less(@)]
    /\ UNCHANGED <<modeVars, cacheVars, mEventMutex, frameVars, pc, posting,
                   appended, entry, twin>>

\* mutant: the flag is set on the primary display too
GeometryOnAll(ds, n) ==
    [k \in 1..Len(ds) |->
        IF k - 1 < n /\ ~ds[k].null
        THEN [ds[k] EXCEPT !.flags = @ \cup {HWC_GEOMETRY_CHANGED}]
        ELSE ds[k]]

GeometryOnSecondary(ds, n) ==
    \* lines 363-370
    [k \in 1..Len(ds) |->
        IF k - 1 < n /\ k - 1 # DEVICE_PRIMARY /\ ~ds[k].null
        THEN [ds[k] EXCEPT !.flags = @ \cup {HWC_GEOMETRY_CHANGED}]
        ELSE ds[k]]

handleBlankEvent ==
    /\ Take(BLANK_EVENT)
    /\ mBlankDevice' = Head(mPendingEvents).blank
    /\ displays' = blankSecondaryDevice(
                       GeometryOnSecondary(displays, mCachedNumDisplays),
                       mCachedNumDisplays, Head(mPendingEvents).blank)
    /\ trace' = [trace EXCEPT !.blanked = TRUE,
                              !.blank = Head(mPendingEvents).blank,
                              !.owed = Less(@)]
    /\ UNCHANGED <<mEnableVideoExtendedMode, mVideoExtendedMode,
                   mForceCloneMode, mVideoPlaying, mVideoPreparing,
                   mOverlayAllowed, cacheVars, mEventMutex, bufferManager,
                   drmMode, pc, posting, appended, entry, twin, vsyncResets>>

handleVideoEvent ==
    /\ Take(VIDEO_EVENT)
    /\ mVideoPlaying' = Head(mPendingEvents).playing
    /\ trace' = [trace EXCEPT !.stopped = @ \/ ~Head(mPendingEvents).playing,
                              !.owed = Less(@)]
    /\ UNCHANGED <<mEnableVideoExtendedMode, mVideoExtendedMode,
                   mForceCloneMode, mBlankDevice, mVideoPreparing,
                   mOverlayAllowed, cacheVars, mEventMutex, frameVars, pc,
                   posting, appended, entry, twin, vsyncResets>>

\* mutant: the drain returns with events left in the queue
HandleReturnEarly ==
    /\ pc = "drain"
    /\ mEventMutex = "comp"
    /\ mEventMutex' = "free"
    /\ pc' = "detect"
    /\ appended' = mPendingEvents
    /\ applied' = <<>>
    /\ vsyncResets' = [vsyncResets EXCEPT !["comp"] = 0]
    /\ trace' = [trace EXCEPT !.calls = Append(@, "handlePendingEvents")]
    /\ UNCHANGED <<modeVars, cacheVars, mPendingEvents, frameVars, posting,
                   entry, twin>>

IsPrefix(s, t) == Len(s) <= Len(t) /\ SubSeq(t, 1, Len(s)) = s

HandleReturn ==
    \* handlePendingEvents returns (line 334 or the end of the loop) and the
    \* Autolock releases the mutex.  Events applied in the order of their
    \* appending are retired from the history.
    /\ pc = "drain"
    /\ mEventMutex = "comp"
    /\ mPendingEvents = <<>>
    /\ mEventMutex' = "free"
    /\ pc' = "detect"
    /\ IF IsPrefix(applied, appended)
       THEN /\ appended' = SubSeq(appended, Len(applied) + 1, Len(appended))
            /\ applied' = <<>>
       ELSE UNCHANGED <<appended, applied>>
    /\ vsyncResets' = [vsyncResets EXCEPT !["comp"] = 0]
    /\ trace' = [trace EXCEPT !.calls = Append(@, "handlePendingEvents")]
    /\ UNCHANGED <<modeVars, cacheVars, mPendingEvents, frameVars, posting,
                   entry, twin>>

(***************************************************************************)
(* The collaborators when they answer: handle 1 is a video buffer, handle 2 *)
(* is not; the mode of the external display is MaxDim x MaxDim unless the   *)
(* frame says otherwise.                                                   *)
(***************************************************************************)
Buffers == [h \in 1..2 |-> IF h = 1 THEN "video" ELSE "rgb"]
FullMode == ModeInfo(MaxDim, MaxDim)
Answering(bm) == [h \in 1..2 |-> IF bm[h] = "none" THEN Buffers[h] ELSE bm[h]]
AnsweringMode(mode) == IF mode.ok THEN mode ELSE FullMode
Failing(bm, mode) == (\E h \in 1..2 : bm[h] = "none") \/ ~mode.ok

\* lines 101-106 on the mode state only: [vem, forceClone] after them
Detectors(ds, n, enabled, playing, vem, forceClone, bm, mode) ==
    LET x == detectVideoExtendedMode(ds, n, playing, vem, forceClone, bm, mode)
        t == detectTrickMode(ds[DEVICE_PRIMARY + 1], x.forceClone)
    IN  IF ~enabled THEN [vem |-> vem, forceClone |-> forceClone]
        ELSE IF x.vem THEN [vem |-> TRUE, forceClone |-> t.forceClone]
        ELSE [vem |-> FALSE, forceClone |-> x.forceClone]

\* The other run after this frame.  When a collaborator fails in this frame
\* the other run is this run with the collaborators answering ("failed");
\* in the frame after it, analysed with the collaborators answering, the two
\* runs analyse the same frame from their own mode states ("next").
NextTwin(ds) ==
    LET fails == Failing(bufferManager, drmMode)
        from == IF ~fails /\ twin.since = "failed"
                THEN twin
                ELSE [vem |-> mVideoExtendedMode, forceClone |-> mForceCloneMode]
        r == Detectors(ds, mCachedNumDisplays, mEnableVideoExtendedMode,
                       mVideoPlaying, from.vem, from.forceClone,
                       Answering(bufferManager), AnsweringMode(drmMode))
    IN  IF fails
        THEN [vem |-> r.vem, forceClone |-> r.forceClone, since |-> "failed"]
        ELSE IF twin.since = "failed"
        THEN [vem |-> r.vem, forceClone |-> r.forceClone, since |-> "next"]
        ELSE NoTwin

\* mutant: the trick mode is detected first, in every frame
DetectorCallsTrickFirst(blank, enabled, vem) ==
    (IF blank THEN <<"blankSecondaryDevice">> ELSE <<>>)
    \o (IF enabled THEN <<"detectTrickMode", "detectVideoExtendedMode">>
        ELSE <<>>)
    \o <<"release">>

DetectorCalls(blank, enabled, vem) ==
    \* the calls of lines 97-109 in their order; vem is mVideoExtendedMode
    \* after detectVideoExtendedMode
    (IF blank THEN <<"blankSecondaryDevice">> ELSE <<>>)
    \o (IF enabled
        THEN <<"detectVideoExtendedMode">>
             \o (IF vem THEN <<"detectTrickMode">> ELSE <<>>)
        ELSE <<>>)
    \o <<"release">>

\* mutant: the count is cleared and the pointer to the caller's array kept
ReleaseSnapshotCountOnly ==
    /\ mCachedNumDisplays' = 0
    /\ UNCHANGED mCachedDisplays

ReleaseSnapshot ==
    \* lines 108-109
    /\ mCachedNumDisplays' = 0
    /\ mCachedDisplays' = 0

AnalyzeDetect ==
    \* lines 97-109
    /\ pc = "detect"
    /\ LET d1 == IF mBlankDevice
                 THEN blankSecondaryDevice(displays, mCachedNumDisplays,
                                           mBlankDevice)
                 ELSE displays
           x == detectVideoExtendedMode(d1, mCachedNumDisplays, mVideoPlaying,
                    mVideoExtendedMode, mForceCloneMode, bufferManager,
                    drmMode)
           t == detectTrickMode(d1[DEVICE_PRIMARY + 1], x.forceClone)
       IN  /\ IF mEnableVideoExtendedMode
              THEN /\ mVideoExtendedMode' = x.vem
                   /\ IF x.vem
                      THEN /\ mForceCloneMode' = t.forceClone
                           /\ displays' = SetContent(d1, DEVICE_PRIMARY + 1, t.list)
                      ELSE /\ mForceCloneMode' = x.forceClone
                           /\ displays' = d1
              ELSE /\ displays' = d1
                   /\ UNCHANGED <<mVideoExtendedMode, mForceCloneMode>>
           /\ trace' =
                 [trace EXCEPT
                    !.enabled = IF mEnableVideoExtendedMode THEN "yes" ELSE "no",
                    !.step = IF mEnableVideoExtendedMode THEN x.step ELSE @,
                    !.trick = IF ~mEnableVideoExtendedMode \/ ~x.vem \/ ~t.ran
                              THEN @
                              ELSE IF t.detected THEN "on" ELSE "off",
                    !.calls = @ \o DetectorCalls(mBlankDevice,
                                                 mEnableVideoExtendedMode, x.vem)]
           /\ twin' = NextTwin(d1)
    /\ ReleaseSnapshot
    /\ pc' = "idle"
    /\ UNCHANGED <<mEnableVideoExtendedMode, mBlankDevice, mVideoPlaying,
                   mVideoPreparing, mOverlayAllowed, mPendingEvents,
                   mEventMutex, bufferManager, drmMode, posting, appended,
                   applied, entry, vsyncResets>>


(***************************************************************************)
(* Frames the caller passes: the display contents, with the state of the   *)
(* buffer manager and of the external display's mode during the frame.     *)
(* Handle 1 is a video buffer, handle 2 is not.                            *)
(***************************************************************************)
Frame(ds, bm, mode) == [displays |-> ds, bm |-> bm, mode |-> mode]
FbTarget == Layer(0, {}, {}, "HWC_FRAMEBUFFER_TARGET", MaxDim, MaxDim)
VideoLayer(w, ht) == Layer(1, {HWC_SKIP_LAYER}, {}, HWC_FRAMEBUFFER, w, ht)

FramesBasic ==
    { Frame(<<Content({}, <<FbTarget>>)>>, Buffers, FullMode),
      Frame(<<Content({HWC_GEOMETRY_CHANGED},
                      <<VideoLayer(MaxDim, MaxDim), FbTarget>>),
              Content({}, <<VideoLayer(MaxDim, MaxDim), FbTarget>>)>>,
            Buffers, FullMode) }

\* Sequences of at most n elements of S
SeqsUpTo(S, n) == UNION {[1..k -> S] : k \in 0..n}
Flags == {{}, {HWC_GEOMETRY_CHANGED}}

PrimaryLayers ==
    { Layer(1, {}, {}, HWC_OVERLAY, MaxDim, MaxDim),
      Layer(1, {HWC_TRICK_MODE}, {}, HWC_OVERLAY, MaxDim, MaxDim),
      Layer(2, {}, {}, HWC_FRAMEBUFFER, MaxDim, MaxDim) }
SecondaryLayers ==
    { VideoLayer(MaxDim, MaxDim),
      Layer(1, {}, {HWC_HINT_CLEAR_FB}, HWC_OVERLAY, 0, 0),
      Layer(2, {HWC_SKIP_LAYER}, {}, HWC_FRAMEBUFFER, MaxDim, MaxDim) }
Contents(layers) ==
    {NULL} \cup {Content(fl, <<>>) : fl \in Flags}
        \cup {Content(fl, ls \o <<FbTarget>>) :
                 fl \in Flags, ls \in SeqsUpTo(layers, MaxLayers)}
PrimaryPlain ==
    Content({}, <<Layer(1, {}, {}, HWC_OVERLAY, MaxDim, MaxDim), FbTarget>>)
PrimaryChanged == [PrimaryPlain EXCEPT !.flags = {HWC_GEOMETRY_CHANGED}]
SecondaryPlain == Content({}, <<VideoLayer(MaxDim, MaxDim), FbTarget>>)
\* the trick-mode flag on the frame buffer target only
PrimaryTrickTarget ==
    Content({}, <<Layer(1, {}, {}, HWC_OVERLAY, MaxDim, MaxDim),
                  [FbTarget EXCEPT !.flags = {HWC_TRICK_MODE}]>>)
\* the video handle on the frame buffer target only
SecondaryVideoTarget ==
    Content({HWC_GEOMETRY_CHANGED},
            <<Layer(2, {}, {}, HWC_OVERLAY, MaxDim, MaxDim),
              [FbTarget EXCEPT !.handle = 1]>>)

\* Frames in which a collaborator fails: lockDataBuffer for the handles hs,
\* getModeInfo
BuffersFailing(hs) == [h \in 1..2 |-> IF h \in hs THEN "none" ELSE Buffers[h]]
PrimaryTwo ==
    Content({HWC_GEOMETRY_CHANGED},
            <<Layer(2, {}, {}, HWC_FRAMEBUFFER, MaxDim, MaxDim),
              Layer(1, {}, {}, HWC_OVERLAY, MaxDim, MaxDim), FbTarget>>)
SecondaryEmbedded ==
    Content({}, <<Layer(1, {}, {}, HWC_FRAMEBUFFER, 0, 0), FbTarget>>)
FramesFailing ==
    {Frame(ds, c[1], c[2]) :
        ds \in {<<PrimaryChanged, SecondaryPlain>>,
                <<PrimaryChanged, SecondaryEmbedded>>,
                <<PrimaryTwo, SecondaryPlain>>},
        c \in {<<BuffersFailing({2}), FullMode>>,
               <<BuffersFailing({1, 2}), FullMode>>,
               <<Buffers, NoModeInfo>>,
               <<BuffersFailing({2}), NoModeInfo>>}}

FramesRich ==
    LET arrays ==
            {<<PrimaryPlain>>, <<PrimaryChanged>>, <<PrimaryChanged, NULL>>,
             <<PrimaryChanged, NULL, NULL>>,
             <<NULL, SecondaryPlain, SecondaryPlain>>,
             <<NULL, SecondaryVideoTarget, SecondaryPlain>>,
             <<PrimaryPlain, SecondaryVideoTarget>>,
             <<PrimaryTrickTarget, SecondaryVideoTarget>>,
             <<PrimaryPlain, NULL, SecondaryVideoTarget>>}
            \cup {<<p, SecondaryPlain>> : p \in Contents(PrimaryLayers)}
            \cup {<<PrimaryPlain, s>> : s \in Contents(SecondaryLayers)}
            \cup {<<PrimaryPlain, s, SecondaryPlain>> :
                     s \in Contents({Layer(2, {HWC_SKIP_LAYER}, {},
                                           HWC_FRAMEBUFFER, MaxDim, MaxDim),
                                     Layer(1, {}, {}, HWC_FRAMEBUFFER, 0, 0)})}
    IN  {Frame(ds, Buffers, FullMode) : ds \in arrays}
        \cup FramesFailing

(***************************************************************************)
(* The caller: after analyzeContents has returned, it consumes the frame   *)
(* and reuses the memory of the layers.                                    *)
(***************************************************************************)
FrameDone ==
    /\ pc = "idle"
    /\ entry.valid
    /\ displays' = <<>>
    /\ entry' = [entry EXCEPT !.valid = FALSE, !.displays = <<>>]
    /\ twin' = IF twin.since = "next" THEN NoTwin ELSE twin
    /\ UNCHANGED <<modeVars, cacheVars, mPendingEvents, mEventMutex,
                   bufferManager, drmMode, pc, posting, appended, applied,
                   trace, vsyncResets>>

(***************************************************************************)
(* Specifications                                                          *)
(***************************************************************************)
FrameEvents ==
    {HotplugEvent(TRUE)} \cup {BlankEvent(b) : b \in BOOLEAN}
        \cup {VideoEvent(FALSE, pl) : pl \in BOOLEAN}
AllEvents ==
    {HotplugEvent(TRUE), VideoEvent(TRUE, TRUE)}
        \cup {BlankEvent(b) : b \in BOOLEAN}
LiveEvents == {HotplugEvent(TRUE), BlankEvent(TRUE), VideoEvent(FALSE, TRUE)}

Produce(P, evs, cap) ==
    \E p \in P :
        \/ \E c \in BOOLEAN :
              /\ c => HotplugEvent(c) \in evs
              /\ postHotplugEvent(p, c, cap)
        \/ \E pr \in BOOLEAN, pl \in BOOLEAN :
              /\ VideoEvent(pr, pl) \in evs
              /\ postVideoEvent(p, pr, pl, cap)
        \/ \E b \in BOOLEAN :
              /\ BlankEvent(b) \in evs
              /\ postBlankEvent(p, b, cap)
        \/ postEvent(p)
        \/ postHotplugReturn(p)

Query == \E prop \in BOOLEAN : isVideoExtendedModeEnabled(prop)

HandlePendingEvents ==
    \/ HandleLock
    \/ handleHotplugEvent
    \/ handleBlankEvent
    \/ handleVideoEvent
    \/ HandleReturn

\* Between two frames: no analyzeContents in progress, the last frame consumed
Between == pc = "idle" /\ ~entry.valid
\* ... and no producer inside postEvent
Quiet == Between /\ \A p \in Producers : posting[p] = NoEvent

\* Producers and the composition thread interleave freely
Next ==
    \/ Produce(Producers, AllEvents, MaxPending)
    \/ Query
    \/ AnalyzeBegin(FramesBasic)
    \/ HandlePendingEvents
    \/ AnalyzeDetect
    \/ FrameDone

Spec == Init /\ [][Next]_vars

\* Frames of every shape, each consumed before the next; one producer, which
\* posts one event at a time between two frames
NextFrame ==
    \/ Between /\ mPendingEvents = <<>> /\ Produce({"p1"}, FrameEvents, MaxPending)
    \/ Between /\ Query
    \/ Quiet /\ AnalyzeBegin(FramesRich)
    \/ HandlePendingEvents
    \/ AnalyzeDetect
    \/ FrameDone

SpecFrame == Init /\ [][NextFrame]_vars

\* The concurrent specification with the scheduling the code relies on: the
\* composition thread keeps calling analyzeContents and going on in it (the
\* caller's frame loop), and a producer holding mEventMutex goes on to append
\* and release (postEvent is straight-line code).
CompositionThread ==
    \/ AnalyzeBegin(FramesBasic)
    \/ HandlePendingEvents
    \/ AnalyzeDetect
    \/ FrameDone
NextLive ==
    \/ Produce(Producers, LiveEvents, MaxPending)
    \/ Query
    \/ CompositionThread
SpecLive ==
    /\ Init /\ [][NextLive]_vars
    /\ WF_vars(CompositionThread)
    /\ \A p \in Producers : WF_vars(postEvent(p))

\* Frames in which the video of the primary display is matched on the
\* external display, with every size of the matched layer and of the mode
FramesSized ==
    {Frame(<<PrimaryChanged,
             Content({}, <<VideoLayer(w, ht), FbTarget>>)>>,
           Buffers, ModeInfo(mw, mh)) :
        w \in 0..MaxDim, ht \in 0..MaxDim, mw \in 0..MaxDim, mh \in 0..MaxDim}

NextSized ==
    \/ Between /\ mPendingEvents = <<>> /\ Produce({"p1"}, FrameEvents, MaxPending)
    \/ Between /\ Query
    \/ Quiet /\ AnalyzeBegin(FramesSized)
    \/ HandlePendingEvents
    \/ AnalyzeDetect
    \/ FrameDone

SpecSized == Init /\ [][NextSized]_vars

(***************************************************************************)
(* Properties                                                              *)
(***************************************************************************)
\* analyzeContents has returned and the caller still holds the frame
Returned == pc = "idle" /\ entry.valid
Primary(ds) == ds[DEVICE_PRIMARY + 1]
HasPrimary(ds) == Len(ds) > DEVICE_PRIMARY /\ ~Primary(ds).null
NumActive(ds) == Cardinality({k \in 1..Len(ds) : ~ds[k].null})
AnyGeometry(ds) ==
    \E k \in 1..Len(ds) : ~ds[k].null /\ HWC_GEOMETRY_CHANGED \in ds[k].flags
TrickLayers(c) == {j \in 1..Len(c.hwLayers) : HWC_TRICK_MODE \in c.hwLayers[j].flags}
Min(S) == CHOOSE x \in S : \A y \in S : x <= y

\* C1: the events are applied in the order of their appending, each exactly
\* once: at every moment the events appended so far are the events applied so
\* far followed by the events still in the queue.
C1_Fifo == appended = applied \o mPendingEvents
C1_Witness ==
    /\ pc = "drain"
    /\ Len(applied) >= 2
    /\ applied[1] # applied[2]

\* C2: after an analyzeContents whose frame has fewer than 2 non-null displays
\* checkVideoExtendedMode() is false, whatever the state was before the call.
C2_Claim == (Returned /\ NumActive(entry.displays) < 2) => ~checkVideoExtendedMode

\* C3: after an analyzeContents whose primary display has a layer with the
\* trick-mode flag, checkVideoExtendedMode() is false.
C3_Claim ==
    (Returned /\ HasPrimary(entry.displays)
        /\ TrickLayers(Primary(entry.displays)) # {})
    => ~checkVideoExtendedMode

\* C4: at every return of analyzeContents mVideoExtendedMode implies
\* mVideoPlaying, and when a video event with playing = false was applied in
\* the call mVideoExtendedMode is false.
C4_Claim ==
    Returned => /\ mVideoExtendedMode => mVideoPlaying
                /\ trace.stopped => ~mVideoExtendedMode

\* C5 as claimed: when no active display of the frame passed has the
\* geometry-changed flag, the decision after the call is the decision after
\* the previous call.
C5_Claim ==
    (Returned /\ ~AnyGeometry(entry.displays))
    => (checkVideoExtendedMode = (entry.vem /\ ~entry.forceClone))

\* C5 as amended: when no active display of the frame passed has the
\* geometry-changed flag, no blank event is applied in the call, the video is
\* playing after the events are applied and at least 2 displays are active,
\* mVideoExtendedMode after the call is mVideoExtendedMode after the previous
\* call.
C5_Retained ==
    (Returned /\ ~AnyGeometry(entry.displays) /\ ~trace.blanked
        /\ mVideoPlaying /\ NumActive(entry.displays) >= 2)
    => mVideoExtendedMode = entry.vem
C5_Witness ==
    /\ Returned /\ ~AnyGeometry(entry.displays) /\ ~trace.blanked
    /\ mVideoPlaying /\ NumActive(entry.displays) >= 2
    /\ trace.enabled = "yes"
    /\ entry.vem
    /\ HasPrimary(entry.displays)
    /\ \A j \in 1..Len(Primary(entry.displays).hwLayers) :
           Primary(entry.displays).hwLayers[j].handle # 1

\* C6: detectTrickMode sets the geometry-changed flag of the primary display
\* only in a frame where the detection differs from mForceCloneMode; when the
\* detector ran in the previous frame and in this one with the same detection,
\* the flags of the primary display are as the caller passed them and
\* mForceCloneMode is as it was at entry.
C6_EdgeTriggered ==
    Returned =>
        /\ (trace.trick # "none"
              /\ Primary(displays).flags # Primary(entry.displays).flags)
           => (trace.trick = "on") # entry.forceClone
        /\ (trace.trick # "none" /\ trace.trick = entry.trick)
           => /\ Primary(displays).flags = Primary(entry.displays).flags
              /\ mForceCloneMode = entry.forceClone
C6_Witness ==
    /\ Returned
    /\ trace.trick = "on"
    /\ entry.trick = "on"
    /\ HWC_GEOMETRY_CHANGED \notin Primary(displays).flags

\* C7 as claimed: in an analyzeContents with the support enabled, a primary
\* display with a trick-mode layer and mForceCloneMode false at entry, the
\* call sets mForceCloneMode, sets the geometry-changed flag of the primary
\* display and resets the composition type of the flagged layer.
C7_Pre ==
    /\ Returned
    /\ trace.enabled = "yes"
    /\ HasPrimary(entry.displays)
    /\ TrickLayers(Primary(entry.displays)) # {}
    /\ ~entry.forceClone
C7_Post ==
    /\ mForceCloneMode
    /\ HWC_GEOMETRY_CHANGED \in Primary(displays).flags
    /\ Primary(displays).hwLayers[Min(TrickLayers(Primary(entry.displays)))]
           .compositionType = HWC_FRAMEBUFFER
VideoFormatLayer(l) == l.handle # 0 /\ bufferManager[l.handle] = "video"
Scanned(c) == 1..(Len(c.hwLayers) - 1)
PrimaryVideos(ds) ==
    IF HasPrimary(ds)
    THEN {v \in Scanned(Primary(ds)) : VideoFormatLayer(Primary(ds).hwLayers[v])}
    ELSE {}
Matches(ds, h) ==
    UNION {{<<k, j>> : j \in {i \in Scanned(ds[k]) : ds[k].hwLayers[i].handle = h}} :
              k \in {i \in 2..Len(ds) : ~ds[i].null}}
Before(a, b) == a[1] < b[1] \/ (a[1] = b[1] /\ a[2] <= b[2])
FirstMatch(ds, h) == CHOOSE m \in Matches(ds, h) : \A o \in Matches(ds, h) : Before(m, o)
VideoHandle(ds) == Primary(ds).hwLayers[Min(PrimaryVideos(ds))].handle
MatchedLayer(ds) ==
    LET m == FirstMatch(ds, VideoHandle(ds)) IN ds[m[1]].hwLayers[m[2]]
HasMatch(ds) == PrimaryVideos(ds) # {} /\ Matches(ds, VideoHandle(ds)) # {}
Rederived ==
    /\ Returned
    /\ trace.enabled = "yes"
    /\ mVideoPlaying
    /\ NumActive(entry.displays) >= 2
    /\ AnyGeometry(entry.displays)

\* C8: in a frame analysed with the support enabled, the video playing, at
\* least 2 active displays and the geometry-changed flag on one of them,
\* mVideoExtendedMode after the call is true exactly when the primary display
\* has a video-format layer before its frame buffer target and the first layer
\* with the handle of the first of them, on the non-primary displays in slot
\* order, exists and is not embedded.
C8_FirstMatch ==
    Rederived =>
        (mVideoExtendedMode <=>
            (HasMatch(entry.displays)
                /\ ~isVideoEmbedded(MatchedLayer(entry.displays), drmMode)))
C8_Witness ==
    /\ Rederived
    /\ mVideoExtendedMode
    /\ HasMatch(entry.displays)
    /\ Cardinality(Matches(entry.displays, VideoHandle(entry.displays))) >= 2
    /\ \E m \in Matches(entry.displays, VideoHandle(entry.displays)) :
           isVideoEmbedded(entry.displays[m[1]].hwLayers[m[2]], drmMode)

\* The sizes the classification compares
DstW(l) == l.displayFrame.right - l.displayFrame.left
DstH(l) == l.displayFrame.bottom - l.displayFrame.top
Sized == Rederived /\ HasMatch(entry.displays) /\ drmMode.ok

\* C9 as claimed: the matched layer is classified as embedded (and
\* mVideoExtendedMode is left false) exactly when its destination width is
\* smaller than the mode width and its destination height smaller than the
\* mode height.
C9_Claim ==
    Sized =>
        (~mVideoExtendedMode <=>
            (DstW(MatchedLayer(entry.displays)) < drmMode.hdisplay
                /\ DstH(MatchedLayer(entry.displays)) < drmMode.vdisplay))

\* C9 as amended: the matched layer is classified as embedded (and
\* mVideoExtendedMode is left false) exactly when its destination width is
\* smaller than the mode width minus 1 and its destination height smaller than
\* the mode height minus 1.
C9_MarginOfOne ==
    Sized =>
        (~mVideoExtendedMode <=>
            (DstW(MatchedLayer(entry.displays)) < drmMode.hdisplay - 1
                /\ DstH(MatchedLayer(entry.displays)) < drmMode.vdisplay - 1))
C9_Witness ==
    /\ Sized
    /\ mVideoExtendedMode
    /\ DstW(MatchedLayer(entry.displays)) < drmMode.hdisplay
    /\ DstH(MatchedLayer(entry.displays)) = drmMode.vdisplay - 1

\* C10: after an analyzeContents that ends with mBlankDevice true, every layer
\* before the frame buffer target of every non-null non-primary display has
\* the clear-framebuffer hint, no skip flag and the overlay composition type.
Blanked(l) ==
    /\ HWC_HINT_CLEAR_FB \in l.hints
    /\ HWC_SKIP_LAYER \notin l.flags
    /\ l.compositionType = HWC_OVERLAY
C10_Blanked ==
    (Returned /\ mBlankDevice) =>
        \A k \in 2..Len(displays) :
            ~displays[k].null =>
                \A j \in Scanned(displays[k]) : Blanked(displays[k].hwLayers[j])
C10_Witness ==
    /\ Returned /\ mBlankDevice
    /\ ~trace.blanked
    /\ Len(displays) = 3
    /\ \A k \in 2..3 :
          /\ ~entry.displays[k].null
          /\ \E j \in Scanned(entry.displays[k]) :
                ~Blanked(entry.displays[k].hwLayers[j])

\* The hotplug events among the events applied in the drain in progress
HotplugsApplied == {i \in 1..Len(applied) : applied[i].type = HOTPLUG_EVENT}
InDisconnect(p) == posting[p] = HotplugEvent(FALSE)

\* C11: postHotplugEvent(false) calls resetVsyncSource() once before it
\* returns and appends no event; postHotplugEvent(true) calls no
\* resetVsyncSource() and appends exactly one hotplug event on return; the
\* drain calls resetVsyncSource() exactly once for every hotplug event it
\* applies, and never for another event.
C11_State ==
    /\ \A p \in Producers :
           vsyncResets[p] = IF InDisconnect(p) THEN 1 ELSE 0
    /\ vsyncResets["comp"] = Cardinality(HotplugsApplied)
    /\ \A i \in 1..Len(mPendingEvents) :
           mPendingEvents[i] # HotplugEvent(FALSE)
C11_Step ==
    \A p \in Producers :
        /\ (InDisconnect(p) /\ posting'[p] = NoEvent)
           => mPendingEvents' = mPendingEvents
        /\ (posting[p] = HotplugEvent(TRUE) /\ posting'[p] = NoEvent)
           => /\ mPendingEvents' = Append(mPendingEvents, HotplugEvent(TRUE))
              /\ vsyncResets' = vsyncResets
C11_Vsync == []C11_State /\ [][C11_Step]_vars
C11_Witness ==
    /\ pc = "drain"
    /\ vsyncResets["comp"] = 1
    /\ Len(applied) = 2
    /\ \E p \in Producers : InDisconnect(p) /\ vsyncResets[p] = 1

\* The collaborator queries that fail in the derivation of the frame:
\* lockDataBuffer for a layer of the primary display scanned up to its first
\* video layer, getModeInfo for the matched layer
BufferLookupFailed(ds) ==
    /\ HasPrimary(ds)
    /\ \E j \in Scanned(Primary(ds)) :
           /\ Primary(ds).hwLayers[j].handle # 0
           /\ bufferManager[Primary(ds).hwLayers[j].handle] = "none"
           /\ \A v \in PrimaryVideos(ds) : j < v
ModeInfoFailed(ds) == HasMatch(ds) /\ ~drmMode.ok
QueryFailed(ds) == BufferLookupFailed(ds) \/ ModeInfoFailed(ds)

\* C12: when a collaborator query fails in the derivation of a frame
\* (lockDataBuffer for a layer of the primary display, getModeInfo for the
\* matched layer), mVideoExtendedMode is false after the call.
C12_Claim == (Rederived /\ QueryFailed(entry.displays)) => ~mVideoExtendedMode

\* C13: a collaborator failure in one frame does not influence the next: in
\* the frame after a frame in which a collaborator failed, analysed with the
\* collaborators answering, the decision is the decision of the run in which
\* the collaborators answered in both frames.
C13_Claim ==
    (Returned /\ twin.since = "next")
    => (checkVideoExtendedMode = (twin.vem /\ ~twin.forceClone))

\* C14: whenever no analyzeContents is in progress the snapshot is empty
\* (mCachedNumDisplays = 0 and mCachedDisplays null), so every return of
\* analyzeContents has released it; and no step of a producer (post*) or of
\* isVideoExtendedModeEnabled() changes the snapshot or the display contents.
SnapshotEmpty == mCachedNumDisplays = 0 /\ mCachedDisplays = 0
C14_Step ==
    (posting' # posting \/ mEnableVideoExtendedMode' # mEnableVideoExtendedMode)
    => UNCHANGED <<displays, mCachedNumDisplays, mCachedDisplays>>
C14_Snapshot == [](pc = "idle" => SnapshotEmpty) /\ [][C14_Step]_vars
C14_Witness ==
    /\ Returned
    /\ Len(entry.displays) = 2
    /\ SnapshotEmpty
    /\ mPendingEvents # <<>>
    /\ \E p \in Producers : posting[p] # NoEvent

\* C15 as claimed: in every analyzeContents with the support enabled the
\* steps are: snapshot install, drain of the queue, blankSecondaryDevice when
\* mBlankDevice is set, detectTrickMode, detectVideoExtendedMode, snapshot
\* release, with detectTrickMode in every such frame and before
\* detectVideoExtendedMode.
Blanking == IF mBlankDevice THEN <<"blankSecondaryDevice">> ELSE <<>>
Applying == pc = "drain" /\ applied # <<>>
HandlerStep == Len(applied') = Len(applied) + 1
C16_Claim ==
    /\ [](Applying => mEventMutex # "comp")
    /\ [][HandlerStep => (mEventMutex # "comp" /\ mEventMutex' # "comp")]_vars

\* C17: every event queued when analyzeContents starts is applied in that
\* call (none of them is owed once the drain has returned) and the drain
\* returns with the queue empty; with analyzeContents called again and again,
\* every event appended is eventually applied (and retired from the history).
C17_Drained == (pc = "detect" \/ Returned) => trace.owed = 0
C17_Return == (pc = "drain" /\ pc' = "detect") => mPendingEvents' = <<>>
C17_Applied ==
    /\ []C17_Drained
    /\ [][C17_Return]_vars
    /\ (appended # <<>>) ~> (appended = <<>>)
C17_Witness ==
    /\ pc = "drain"
    /\ Len(applied) = 2
    /\ trace.owed = 0
    /\ mPendingEvents = <<>>

\* A step of the composition thread inside analyzeContents that may write the
\* mode state: a handler, or the detectors up to the return
AnalysisStep == HandlerStep \/ (pc = "detect" /\ pc' = "idle")
resultVars ==
    <<mVideoExtendedMode, mForceCloneMode, mBlankDevice, mVideoPlaying,
      mVideoPreparing, mOverlayAllowed>>

\* C18 as claimed: no field of the mode state (mEnableVideoExtendedMode
\* included) changes in a step that is not a step of analyzeContents on the
\* composition thread: not in a post, not in a query.
C18_Claim == [][modeVars' # modeVars => AnalysisStep]_vars

\* C18 as amended: mVideoExtendedMode, mForceCloneMode, mBlankDevice,
\* mVideoPlaying, mVideoPreparing and mOverlayAllowed change only in a step of
\* analyzeContents on the composition thread, and no step of a post changes
\* any field of the mode state; mEnableVideoExtendedMode is rewritten by the
\* query isVideoExtendedModeEnabled(), on its caller's thread.
C18_Step ==
    /\ resultVars' # resultVars => AnalysisStep
    /\ posting' # posting => modeVars' = modeVars
    /\ mEnableVideoExtendedMode' # mEnableVideoExtendedMode
       => UNCHANGED <<resultVars, pc, applied, posting, mPendingEvents>>
C18_ModeState == [][C18_Step]_vars
C18_Witness ==
    /\ ~mEnableVideoExtendedMode
    /\ ~mBlankDevice
    /\ ~mVideoPlaying
    /\ pc = "idle"
    /\ mPendingEvents = <<BlankEvent(TRUE)>>
    /\ \E p \in Producers : posting[p] = VideoEvent(TRUE, TRUE)

\* The blank events among the events applied in the drain in progress
BlanksApplied == {i \in 1..Len(applied) : applied[i].type = BLANK_EVENT}
Max(S) == CHOOSE x \in S : \A y \in S : x >= y
AfterEvents == pc = "detect" \/ Returned
Secondaries(ds) == {k \in 2..Len(ds) : ~ds[k].null}

\* C19: in an analyzeContents that applies a blank event, every non-null
\* non-primary display has the geometry-changed flag when the drain has
\* returned (before the detectors) and at the return of the call, and
\* mBlankDevice is the value of the last blank event applied; the handling
\* of the events leaves the flags of the primary display as the caller
\* passed them.
C19_Blank ==
    /\ (pc = "drain" /\ BlanksApplied # {})
       => /\ mBlankDevice = applied[Max(BlanksApplied)].blank
          /\ trace.blanked /\ trace.blank = mBlankDevice
    /\ (AfterEvents /\ trace.blanked)
       => /\ \A k \in Secondaries(displays) :
                HWC_GEOMETRY_CHANGED \in displays[k].flags
          /\ mBlankDevice = trace.blank
    /\ ((pc = "drain" \/ pc = "detect") /\ HasPrimary(entry.displays))
       => Primary(displays).flags = Primary(entry.displays).flags
C19_Witness ==
    /\ pc = "drain"
    /\ Cardinality(BlanksApplied) = 2
    /\ applied[1].blank /\ ~applied[2].blank
    /\ ~mBlankDevice
    /\ Secondaries(entry.displays) # {}
    /\ \A k \in Secondaries(entry.displays) :
           /\ HWC_GEOMETRY_CHANGED \notin entry.displays[k].flags
           /\ HWC_GEOMETRY_CHANGED \in displays[k].flags

\* What blankSecondaryDevice may change of a layer: the clear-framebuffer
\* hint, the skip flag and the composition type
SameButBlanking(l0, l1) ==
    /\ l1.handle = l0.handle
    /\ l1.displayFrame = l0.displayFrame
    /\ l1.flags \ {HWC_SKIP_LAYER} = l0.flags \ {HWC_SKIP_LAYER}
    /\ l1.hints \ {HWC_HINT_CLEAR_FB} = l0.hints \ {HWC_HINT_CLEAR_FB}
LayersChanged(c0, c1) == {j \in 1..Len(c0.hwLayers) : c0.hwLayers[j] # c1.hwLayers[j]}

\* C20: blankSecondaryDevice (in handleBlankEvent and at line 98) changes only
\* the clear-framebuffer hint, the skip flag and the composition type of the
\* layers before the frame buffer target of the non-null non-primary
\* displays: the last layer of every display, the null displays, the number
\* of layers and, as long as detectTrickMode has not run, the primary display
\* are as the caller passed them, also for a display of zero or one layer;
\* when only it runs (support disabled) mVideoExtendedMode and
\* mForceCloneMode are as at entry.
C20_Frame ==
    AfterEvents =>
        /\ Len(displays) = Len(entry.displays)
        /\ \A k \in 1..Len(displays) :
               /\ displays[k].null = entry.displays[k].null
               /\ Len(displays[k].hwLayers) = Len(entry.displays[k].hwLayers)
               /\ \A j \in 1..Len(displays[k].hwLayers) :
                      SameButBlanking(entry.displays[k].hwLayers[j],
                                      displays[k].hwLayers[j])
                      \/ (k = DEVICE_PRIMARY + 1 /\ trace.trick # "none")
               /\ LayersChanged(entry.displays[k], displays[k])
                      \subseteq (IF k = DEVICE_PRIMARY + 1
                                 THEN TrickLayers(entry.displays[k])
                                 ELSE Scanned(displays[k]))
        /\ (Returned /\ trace.enabled = "no")
           => /\ mVideoExtendedMode = entry.vem
              /\ mForceCloneMode = entry.forceClone
C20_Witness ==
    /\ Returned
    /\ mBlankDevice
    /\ Len(displays) = 3
    /\ ~displays[2].null
    /\ Len(displays[2].hwLayers) = 0
    /\ LayersChanged(entry.displays[3], displays[3]) # {}
    /\ trace.enabled = "no"

\* A layer as blankSecondaryDevice leaves it when mBlankDevice is false
Unblanked(l) ==
    /\ HWC_HINT_CLEAR_FB \notin l.hints
    /\ l.compositionType = HWC_FRAMEBUFFER

\* C21: when the last blank event applied in an analyzeContents carries
\* blank = false, every layer before the frame buffer target of every
\* non-null non-primary display has the clear-framebuffer hint cleared and
\* the framebuffer composition type once the drain has returned and at the
\* return of the call; and an analyzeContents that applies no blank event and
\* ends with mBlankDevice false leaves every non-primary display as the
\* caller passed it.
C21_Unblank ==
    /\ (AfterEvents /\ trace.blanked /\ ~trace.blank)
       => \A k \in Secondaries(displays) :
              \A j \in Scanned(displays[k]) : Unblanked(displays[k].hwLayers[j])
    /\ (Returned /\ ~trace.blanked /\ ~mBlankDevice)
       => \A k \in 2..Len(displays) : displays[k] = entry.displays[k]
C21_Witness ==
    /\ Returned
    /\ trace.blanked /\ ~trace.blank
    /\ Secondaries(entry.displays) # {}
    /\ \A k \in Secondaries(entry.displays) :
           /\ Scanned(entry.displays[k]) # {}
           /\ \A j \in Scanned(entry.displays[k]) :
                  /\ HWC_SKIP_LAYER \in entry.displays[k].hwLayers[j].flags
                  /\ HWC_SKIP_LAYER \notin displays[k].hwLayers[j].flags

\* mForceCloneMode differs at the return from its value at the entry
CloneChanged == Returned /\ entry.valid /\ mForceCloneMode # entry.forceClone

\* The primary content list carries HWC_GEOMETRY_CHANGED at the return
PrimaryInvalidated ==
    HasPrimary(displays) /\ HWC_GEOMETRY_CHANGED \in Primary(displays).flags

\* C22 (as stated): mForceCloneMode changes only inside detectTrickMode, and
\* every analyzeContents that ends with mForceCloneMode different from its
\* value at the entry returns with HWC_GEOMETRY_CHANGED set on the primary
\* content list.
C22_Claim ==
    CloneChanged => (trace.trick # "none" /\ PrimaryInvalidated)

\* C22 (amended): mForceCloneMode changes only in the detector stage of
\* analyzeContents; a change made while the video is playing is made by
\* detectTrickMode and leaves HWC_GEOMETRY_CHANGED set on the primary content
\* list; the only other change is the reset to false that
\* detectVideoExtendedMode performs when the video is not playing, which sets
\* no flag and does not run detectTrickMode.
C22_State ==
    CloneChanged =>
        \/ /\ trace.step # "stopped"
           /\ trace.trick # "none"
           /\ PrimaryInvalidated
        \/ /\ trace.step = "stopped"
           /\ trace.trick = "none"
           /\ ~mVideoPlaying
           /\ ~mForceCloneMode
           /\ ~mVideoExtendedMode
C22_Step ==
    [][mForceCloneMode' # mForceCloneMode => (pc = "detect" /\ pc' = "idle")]_vars
C22_Clone == []C22_State /\ C22_Step
C22_Witness ==
    /\ CloneChanged
    /\ trace.trick # "none"
    /\ HasPrimary(entry.displays)
    /\ HWC_GEOMETRY_CHANGED \notin Primary(entry.displays).flags
    /\ PrimaryInvalidated

====
